---- MODULE Spec2Model ----
(***************************************************************************)
(* Verification model of the ROTC web app front end.                       *)
(*                                                                         *)
(*   SpecChart       app/static/js/chart_controls.js: the smoothed         *)
(*                   attendance chart (movingAverage, buildChart and the   *)
(*                   smoothness slider).                                   *)
(*   SpecAttendance  the roster marking UI and its Save handler, in the    *)
(*                   two variants static/script.js (radio buttons) and     *)
(*                   unnamed/part_000 (check boxes).                       *)
(*   SpecReports     the leaderboard handlers of static/script.js,         *)
(*                   unnamed/part_000 and unnamed/part_001.                *)
(*                                                                         *)
(* JavaScript arrays are 0-based; the sequences here are 1-based, and the  *)
(* operators that take a JavaScript index say so.                          *)
(***************************************************************************)
EXTENDS Integers, Sequences, FiniteSets, TLC

VARIABLES
    \* ---- which script the page runs ----
    variant,        \* "chart_controls", "script", "part_000" or "part_001"
    \* ---- chart_controls.js ----
    series,         \* window.presents / window.ftrs / window.excused
    smoothness,     \* let smoothness (a JavaScript number, possibly NaN)
    chart,          \* the data of the three datasets of the current Chart
    thrown,         \* the exception the last run of chart code ended with
    \* ---- script.js: capability probe ----
    endpointExists, \* state.endpointExists
    probeStep,      \* how many of init()'s probes have returned
    \* ---- attendance (script.js, part_000) ----
    adminPw,        \* ADMIN_PW, from the URL (part_000)
    rost,           \* the rows of the roster table body, with their checked inputs
    ready,          \* rosterOut.dataset.ready === "1" (script.js)
    loading,        \* roster requests in flight
    saving,         \* /api/attendance/save requests in flight (script.js)
    posted,         \* the body of the last attendance POST sent, if any
    \* ---- leaderboard (script.js, part_000, part_001) ----
    lbFrom,         \* value of #lb_from
    lbTo,           \* value of #lb_to
    pending,        \* leaderboard requests in flight
    lbResp,         \* the last leaderboard response a handler received, if any
    lbOut,          \* what #lb_out / #reports-out shows
    \* ---- script.js: the page ----
    pw,             \* state.pw, from the URL
    msg,            \* the #msg status line: its text and its error class
    busy,           \* state.busy
    caught,         \* e.message of what the handler that ran last caught ("": nothing)
    server,         \* the optional endpoints the server answers a HEAD with OK
    lastReq,        \* the last HTTP request script.js issued, if any
    \* ---- script.js: availability search ----
    daySel,         \* value of #day-select
    startInp,       \* value of #start-input
    endInp,         \* value of #end-input
    availOut,       \* what #availability-out shows
    searching,      \* /api/available requests in flight
    listeners,      \* once-listeners for person clicks attached to #availability-out
    profiles,       \* /api/person requests in flight
    modals,         \* person modals open
    \* ---- tabs (script.js, part_000, part_001) ----
    panels,         \* the panels that are shown
    tabsOn,         \* the tab buttons that are highlighted
    clicked,        \* the target of the tab button clicked last ("": none yet)
    dirLoaded,      \* #dir_out.dataset.loaded (part_001)
    dirPending,     \* /api/cadet/list requests in flight (part_001)
    chartsLoaded,   \* window.__charts_loaded__ (part_001)
    chartRuns,      \* refreshCharts() runs started by a tab click (part_001)
    \* ---- attendance aggregation ----
    aggIn,          \* the records, roster, event dates and range of a request
    totals          \* the PersonTotals computed for it, if any

chartVars == <<series, smoothness, chart, thrown>>
probeVars == <<endpointExists, probeStep>>
attVars == <<adminPw, rost, ready, loading, saving, posted>>
repVars == <<lbFrom, lbTo, pending, lbResp, lbOut>>
pageVars == <<pw, msg, busy, caught, server, lastReq>>
availVars == <<daySel, startInp, endInp, availOut, searching, listeners, profiles, modals>>
p1Vars == <<dirLoaded, dirPending, chartsLoaded, chartRuns>>
tabVars == <<panels, tabsOn, clicked, p1Vars>>
aggVars == <<aggIn, totals>>

vars == <<variant, chartVars, probeVars, attVars, repVars, pageVars, availVars, tabVars,
          aggVars>>

(***************************************************************************)
(* Bounds                                                                  *)
(***************************************************************************)
MaxLen == 3            \* longest window.presents array
MaxWindow == 3         \* largest value the smoothness slider delivers
MaxPendingLoads == 2   \* roster requests in flight at once
MaxInflight == 1       \* leaderboard requests in flight at once
MaxRows == 2           \* rows of a leaderboard response (besides the long ones)
MaxDay == 2            \* the calendar of an aggregation request: days 1..MaxDay
MaxListeners == 1      \* once-listeners attached to #availability-out at once
MaxModals == 1         \* person modals open at once

(***************************************************************************)
(* JavaScript values                                                       *)
(***************************************************************************)
\* A JavaScript number: NaN, or an integer (the samples are counts).
NaN == [nan |-> TRUE, v |-> 0]
Num(n) == [nan |-> FALSE, v |-> n]

\* An array entry: t is its JavaScript type; v its value when t is "number",
\* 1 for the boolean true; the "string" entry is a non-numeric text ("abc").
SampleValues == {2, 4, 6}
NumberEntry(n) == [t |-> "number", v |-> n]
TextEntry == [t |-> "string", v |-> 0]
TrueEntry == [t |-> "boolean", v |-> 1]
Entry == {NumberEntry(n) : n \in SampleValues} \cup {TextEntry, TrueEntry}

\* Mutant: parseFloat(b) instead of Number(b): true is not a number either.
Number_parseFloat(b) ==
    IF b.t = "number" THEN Num(b.v) ELSE NaN

\* Number(b)
Number(b) ==
    CASE b.t = "number" -> Num(b.v)
      [] b.t = "boolean" -> Num(b.v)
      [] b.t = "null" -> Num(0)
      [] OTHER -> NaN

\* x || 0 for a JavaScript number x: NaN and 0 are falsy
OrZero(x) == IF x.nan \/ x.v = 0 THEN 0 ELSE x.v

\* Math.max(0, x): NaN if x is NaN
MathMax0(x) == IF x.nan THEN NaN ELSE Num(IF x.v > 0 THEN x.v ELSE 0)

\* Array.prototype.slice(start, end) for a start that is a number >= 0 or NaN
\* and an integer end in 0..length: NaN counts as 0, a start beyond end gives [].
Slice(arr, start, end) ==
    LET s == IF start.nan THEN 0 ELSE start.v
    IN  IF s >= end THEN <<>> ELSE SubSeq(arr, s + 1, end)

RECURSIVE GCD(_, _)
GCD(a, b) == IF b = 0 THEN a ELSE GCD(b, a % b)

\* The quotient a / n of a non-negative integer by a positive one, kept exact
\* as a fraction in lowest terms.
Quot(a, n) ==
    LET g == GCD(a, n) IN [num |-> a \div g, den |-> n \div g]

Whole(n) == [num |-> n, den |-> 1]

\* subset.reduce((a, b) => a + (Number(b) || 0), 0)
RECURSIVE ReduceSum(_, _)
ReduceSum(subset, acc) ==
    IF subset = <<>> THEN acc
    ELSE ReduceSum(Tail(subset), acc + OrZero(Number(Head(subset))))

(***************************************************************************)
(* chart_controls.js                                                       *)
(***************************************************************************)
\* A value of window.presents: an array (arr, with its items) or a value
\* that Array.isArray rejects.
ArrayOf(items) == [arr |-> TRUE, items |-> items]
NotAnArray == [arr |-> FALSE, items |-> <<>>]

\* Mutant: the window looks one sample further back (i - windowSize).
WindowStart_lookBehind(i, windowSize) ==
    MathMax0(IF windowSize.nan THEN NaN ELSE Num(i - windowSize.v))

\* Mutant: a window size below 1 is clamped to 1 before use.
WindowStart_clamped(i, windowSize) ==
    MathMax0(IF windowSize.nan THEN NaN
             ELSE Num(i - (IF windowSize.v < 1 THEN 1 ELSE windowSize.v) + 1))

\* const start = Math.max(0, i - windowSize + 1), i a JavaScript index
WindowStart(i, windowSize) ==
    MathMax0(IF windowSize.nan THEN NaN ELSE Num(i - windowSize.v + 1))

\* Mutant: the slice ends before the current sample (slice(start, i)).
Subset_exclusive(items, i, windowSize) ==
    Slice(items, WindowStart(i, windowSize), i)

\* const subset = data.slice(start, i + 1)
Subset(items, i, windowSize) ==
    Slice(items, WindowStart(i, windowSize), i + 1)

\* out.push(subset.length ? sum / subset.length : 0)
WindowMean(subset) ==
    IF Len(subset) # 0 THEN Quot(ReduceSum(subset, 0), Len(subset)) ELSE Whole(0)

\* Mutant: only full windows are emitted (the loop starts at windowSize - 1).
movingAverage_validOnly(data, windowSize) ==
    IF ~data.arr THEN <<>>
    ELSE LET skip == IF windowSize.nan \/ windowSize.v < 1 THEN 0 ELSE windowSize.v - 1
             n == IF Len(data.items) > skip THEN Len(data.items) - skip ELSE 0
         IN  [k \in 1..n |-> WindowMean(Subset(data.items, k + skip - 1, windowSize))]

\* function movingAverage(data, windowSize): the k-th output is the one the
\* loop pushes at JavaScript index i = k - 1.
movingAverage(data, windowSize) ==
    IF ~data.arr THEN <<>>
    ELSE [k \in 1..Len(data.items) |->
             WindowMean(Subset(data.items, k - 1, windowSize))]

\* function buildChart(): the data of the three datasets
buildChart(win, smooth) ==
    [present |-> movingAverage(win.present, smooth),
     ftr     |-> movingAverage(win.ftr, smooth),
     excused |-> movingAverage(win.excused, smooth)]

\* let smoothness = 3
InitialSmoothness == 3

\* ---- the slider's value, a string, as its sequence of characters ----
DigitChar == <<"0", "1", "2", "3", "4", "5", "6", "7", "8", "9">>
DigitOf(c) == CHOOSE d \in 0..9 : DigitChar[d + 1] = c
IsDigit(c) == \E d \in 0..9 : DigitChar[d + 1] = c

RECURSIVE Digits(_)
Digits(n) ==
    IF n < 10 THEN <<DigitChar[n + 1]>>
    ELSE Append(Digits(n \div 10), DigitChar[(n % 10) + 1])

Numeral(n) == IF n < 0 THEN <<"-">> \o Digits(-n) ELSE Digits(n)

\* parseInt(str, 10): an optional sign, then the longest run of digits; NaN
\* when there is no digit.
RECURSIVE LeadingDigits(_, _, _)
LeadingDigits(chars, acc, seen) ==
    IF chars # <<>> /\ IsDigit(Head(chars))
    THEN LeadingDigits(Tail(chars), 10 * acc + DigitOf(Head(chars)), TRUE)
    ELSE IF seen THEN Num(acc) ELSE NaN

parseInt(str) ==
    LET neg == str # <<>> /\ Head(str) = "-"
        rest == IF str # <<>> /\ Head(str) \in {"-", "+"} THEN Tail(str) ELSE str
        mag == LeadingDigits(rest, 0, FALSE)
    IN  IF mag.nan THEN NaN ELSE Num(IF neg THEN -mag.v ELSE mag.v)

\* e.target.value || "3": the empty string is falsy
ValueOrDefault(value) == IF value = <<>> THEN <<"3">> ELSE value

\* The values the #smoothness control can deliver: an empty value, the
\* integers -1..MaxWindow, a fractional value and a non-numeric text.
SliderValues ==
    {<<>>, <<"2", ".", "5">>, <<"x">>} \cup {Numeral(n) : n \in -1..MaxWindow}

\* ---- the arrays the page supplies ----
RECURSIVE SeqsUpTo(_, _)
SeqsUpTo(S, n) ==
    IF n = 0 THEN {<<>>}
    ELSE LET shorter == SeqsUpTo(S, n - 1)
         IN  shorter \cup {Append(s, x) : s \in {t \in shorter : Len(t) = n - 1}, x \in S}

PresentInputs == {ArrayOf(s) : s \in SeqsUpTo(Entry, MaxLen)} \cup {NotAnArray}
OtherInputs == {ArrayOf(<<>>), ArrayOf(<<NumberEntry(2)>>), ArrayOf(<<TextEntry, NumberEntry(4)>>)}

\* Mutant: movingAverage takes its window off the input with shift(), so the
\* arrays of the page are used up by the first redraw.
SliderInput_consuming(value) ==
    /\ smoothness' = parseInt(ValueOrDefault(value))
    /\ chart' = buildChart(series, smoothness')
    /\ series' = [k \in DOMAIN series |->
                      IF series[k].arr THEN ArrayOf(<<>>) ELSE series[k]]
    /\ thrown' = "none"
    /\ UNCHANGED <<variant, pageVars, availVars, tabVars, aggVars, probeVars, attVars, repVars>>

\* slider.addEventListener("input", ...): movingAverage has no throw
\* statement and every operation it uses is defined on every value, so the
\* listener always runs to its end.
SliderInput(value) ==
    /\ smoothness' = parseInt(ValueOrDefault(value))
    /\ chart' = buildChart(series, smoothness')    \* chart.destroy(); chart = buildChart()
    /\ thrown' = "none"
    /\ UNCHANGED <<variant, pageVars, availVars, tabVars, aggVars, series, probeVars, attVars, repVars>>


(***************************************************************************)
(* Strings and server responses shared by the page scripts                 *)
(***************************************************************************)
\* A text field's value is its sequence of characters.
RECURSIVE TrimLeft(_)
TrimLeft(s) == IF s # <<>> /\ Head(s) = " " THEN TrimLeft(Tail(s)) ELSE s

RECURSIVE TrimRight(_)
TrimRight(s) ==
    IF s # <<>> /\ s[Len(s)] = " " THEN TrimRight(SubSeq(s, 1, Len(s) - 1)) ELSE s

\* String.prototype.trim
Trim(s) == TrimRight(TrimLeft(s))

Date20 == <<"8", "/", "2", "0", "/", "2", "0", "2", "5">>         \* "8/20/2025"
Date27 == <<"8", "/", "2", "7", "/", "2", "0", "2", "5">>         \* "8/27/2025"
IsoDate27 == <<"2", "0", "2", "5", "-", "0", "8", "-", "2", "7">> \* "2025-08-27"

\* toLowerCase / toUpperCase on the values the selects offer
toLowerCase(s) ==
    CASE s = "GSU" -> "gsu"
      [] s = "ULM" -> "ulm"
      [] s = "Adams" -> "adams"
      [] s = "Baker" -> "baker"
      [] s = "Clark" -> "clark"
      [] OTHER -> s

toUpperCase(s) ==
    CASE s = "Lab" -> "LAB"
      [] s = "Other" -> "OTHER"
      [] OTHER -> s

\* s || dflt for a string s
OrDefault(s, dflt) == IF s = "" THEN dflt ELSE s

\* What becomes of a request. net: fetch() resolved (FALSE: a network error);
\* httpOk: res.ok; body: "json" (an object), "empty" or "text" (no JSON). Of a
\* JSON body: ok is true or false; error is "absent", "falsy" (null, "") or
\* "truthy" (a message); rows. The body "null" is the JSON text null.
Reply(rows) ==
    [net |-> TRUE, httpOk |-> TRUE, body |-> "json", ok |-> TRUE, error |-> "absent",
     rows |-> rows]
HttpError == [Reply(<<>>) EXCEPT !.httpOk = FALSE, !.ok = FALSE, !.error = "truthy"]
NotOk == [Reply(<<>>) EXCEPT !.ok = FALSE, !.error = "truthy"]
NotOkSilent == [Reply(<<>>) EXCEPT !.ok = FALSE]
Failures == {HttpError, NotOk, NotOkSilent}

NetworkError == [Reply(<<>>) EXCEPT !.net = FALSE, !.httpOk = FALSE, !.body = "empty",
                                    !.ok = FALSE]
NonJson(httpOk) == [Reply(<<>>) EXCEPT !.httpOk = httpOk, !.body = "text", !.ok = FALSE]
EmptyBody(httpOk) == [Reply(<<>>) EXCEPT !.httpOk = httpOk, !.body = "empty", !.ok = FALSE]
HttpErrorPlain == [Reply(<<>>) EXCEPT !.httpOk = FALSE, !.ok = FALSE]
FalsyError(rows) == [Reply(rows) EXCEPT !.error = "falsy"]
NullBody == [Reply(<<>>) EXCEPT !.body = "null", !.ok = FALSE]
TransportFailures ==
    {NetworkError, NonJson(TRUE), NonJson(FALSE), EmptyBody(FALSE), HttpErrorPlain, NullBody}

\* The messages of the errors fetchJSON throws
NetworkErrorMsg == "Network error: <e.message>"
NonJsonMsg == "HTTP <status> - <body text>"
ServerErrorMsg == "<data.error>"
HttpStatusMsg == "HTTP <status>"
TypeErrorMsg == "Cannot read properties of null (reading 'error')"
FetchMsgs == {NetworkErrorMsg, NonJsonMsg, ServerErrorMsg, HttpStatusMsg, TypeErrorMsg}

Returned(data) == [threw |-> FALSE, message |-> "", data |-> data]
Threw(message) == [threw |-> TRUE, message |-> message, data |-> <<>>]

\* Mutant: only the HTTP status decides; data.error is not looked at.
fetchJSON_statusOnly(resp) ==
    IF ~resp.net THEN Threw(NetworkErrorMsg)
    ELSE IF resp.body = "text" THEN Threw(NonJsonMsg)
    ELSE IF ~resp.httpOk THEN Threw(HttpStatusMsg)
    ELSE Returned(IF resp.body = "json"
                  THEN [ok |-> IF resp.ok THEN "true" ELSE "false", error |-> resp.error,
                        rows |-> resp.rows]
                  ELSE [ok |-> "undefined", error |-> "absent", rows |-> <<>>])

\* script.js fetchJSON, after the request: what it returns or throws. On the
\* body null, data.error is a TypeError.
fetchJSON(resp) ==
    IF ~resp.net THEN Threw(NetworkErrorMsg)
    ELSE IF resp.body = "text" THEN Threw(NonJsonMsg)
    ELSE IF resp.body = "null" THEN Threw(TypeErrorMsg)
    ELSE LET data == IF resp.body = "empty"        \* text ? JSON.parse(text) : {}
                     THEN [ok |-> "undefined", error |-> "absent", rows |-> <<>>]
                     ELSE [ok |-> IF resp.ok THEN "true" ELSE "false",
                           error |-> resp.error, rows |-> resp.rows]
         IN  IF ~resp.httpOk \/ data.error = "truthy"
             THEN Threw(IF data.error = "truthy" THEN ServerErrorMsg ELSE HttpStatusMsg)
             ELSE Returned(data)

fetchJSONThrows(resp) == fetchJSON(resp).threw

\* part_000 getJSON: throws on a network error, on a non-OK status and when
\* r.json() finds no JSON
getJSONThrows(resp) == ~resp.net \/ ~resp.httpOk \/ resp.body # "json"

\* A query parameter: present with its text as written into the URL, or absent
Param(text) == [present |-> TRUE, text |-> text]
Absent == [present |-> FALSE, text |-> <<>>]

(***************************************************************************)
(* script.js: the status line, the requests and the tabs                   *)
(***************************************************************************)
\* function status(msg): what it leaves in #msg (a record field is named
\* status, so the operator is statusLine)
statusLine(m) == [text |-> m, error |-> FALSE]

\* function error(errMsg): what it leaves in #msg
errorLine(errMsg) ==
    [text |-> IF errMsg = "" THEN "Something went wrong." ELSE errMsg, error |-> TRUE]

\* setBusy(on, label) calls status(label || (on ? "Working..." : "")): what it
\* leaves in #msg
setBusyStatus(on, label) ==
    statusLine(IF label # "" THEN label ELSE IF on THEN "Working..." ELSE "")

\* A handler's try / catch / finally that ends with a throw: the catch block
\* calls error(e.message), then the finally block calls setBusy(false).
CatchFinally(message) ==
    /\ caught' = message
    /\ busy' = FALSE
    /\ msg' = setBusyStatus(FALSE, "")

\* A handler's try block that ends without a throw after status(text): the
\* finally block calls setBusy(false) all the same.
TryFinally(text) ==
    /\ caught' = ""
    /\ busy' = FALSE
    /\ msg' = setBusyStatus(FALSE, "")

Tip == "Tip: append ?pw=YOURPASSWORD to the URL."

\* state.endpoints
Endpoints ==
    [available |-> "/api/available", person |-> "/api/person",
     roster |-> "/api/attendance/roster", save |-> "/api/attendance/save",
     leaderboard |-> "/api/reports/leaderboard"]

\* URLSearchParams serialisation (application/x-www-form-urlencoded) of the
\* characters a password is made of here
FormEncodeChar(c) ==
    CASE c = " " -> <<"+">>
      [] c = "&" -> <<"%", "2", "6">>
      [] c = "/" -> <<"%", "2", "F">>
      [] c = "%" -> <<"%", "2", "5">>
      [] OTHER -> <<c>>

RECURSIVE FormEncode(_)
FormEncode(str) ==
    IF str = <<>> THEN <<>> ELSE FormEncodeChar(Head(str)) \o FormEncode(Tail(str))

\* Mutant: the pw is attached to the GET requests only.
AttachPw_getOnly(u) ==
    IF pw # <<>> /\ u.method = "GET" THEN [u EXCEPT !.pw = Param(FormEncode(pw))] ELSE u

\* if (state.pw) u.searchParams.set("pw", state.pw)
AttachPw(u) ==
    IF pw # <<>> THEN [u EXCEPT !.pw = Param(FormEncode(pw))] ELSE u

\* The request fetchJSON(url, opts) sends: the URL with pw attached
fetchJSONRequest(method, path, query) ==
    AttachPw([method |-> method, path |-> path, pw |-> Absent, query |-> query])

\* The request endpointExists(path) sends
HeadRequest(path) ==
    AttachPw([method |-> "HEAD", path |-> path, pw |-> Absent, query |-> <<>>])

ScriptPanels == {"availability", "attendance", "reports"}
\* the .navbtn buttons of the page, by their data-tab
NavButtons == ScriptPanels

\* function showTab(which)
showTab(which) ==
    /\ panels' = {node \in ScriptPanels : node = which}
    /\ tabsOn' = {b \in NavButtons : b = which}

(***************************************************************************)
(* script.js: capability probe                                             *)
(***************************************************************************)
ProbeOrder == <<"person", "roster", "save", "leaderboard">>

NoEndpoints == [person |-> FALSE, roster |-> FALSE, save |-> FALSE, leaderboard |-> FALSE]

\* init(): state.endpointExists.x = await endpointExists(...), one after
\* another. A probe returns res.ok, or false when fetch() rejected; the next
\* probe is sent, and after the last one init() runs to its end
\* (showTab("availability")).
ScriptProbe(reached) ==
    /\ variant = "script"
    /\ probeStep < Len(ProbeOrder)
    /\ endpointExists' =
           [endpointExists EXCEPT ![ProbeOrder[probeStep + 1]] =
                                      reached /\ ProbeOrder[probeStep + 1] \in server]
    /\ probeStep' = probeStep + 1
    /\ IF probeStep + 1 < Len(ProbeOrder)
       THEN /\ lastReq' = <<HeadRequest(Endpoints[ProbeOrder[probeStep + 2]])>>
            /\ UNCHANGED <<panels, tabsOn>>
       ELSE /\ showTab("availability")
            /\ UNCHANGED lastReq
    /\ UNCHANGED <<variant, pw, msg, busy, caught, server, availVars, clicked, p1Vars, aggVars,
                   chartVars, attVars, repVars>>

(***************************************************************************)
(* Attendance: roster and marks                                            *)
(***************************************************************************)
Statuses == {"Present", "FTR", "Excused"}
StatusOrder == <<"Present", "FTR", "Excused">>    \* the inputs of a row, in DOM order

\* A row's ms is a JavaScript value: a number, or a text such as "MS3" that
\* Number() makes NaN (MsText(3)).
MsText(level) == [t |-> "string", v |-> level]

Al == [first |-> "Al", last |-> "Adams", ms |-> NumberEntry(3)]
Bo == [first |-> "Bo", last |-> "Baker", ms |-> NumberEntry(4)]
Cy == [first |-> "Cy", last |-> "Adams", ms |-> NumberEntry(3)]

\* The rows of a roster response
RosterRows == {<<>>, <<Al>>, <<Al, Bo>>, <<Cy, Al>>}
RosterReplies == {Reply(rows) : rows \in RosterRows} \cup Failures

\* The order of the last names under localeCompare
Collation == <<"adams", "Adams", "baker", "Baker", "clark", "Clark">>
CollationIndex(s) == CHOOSE i \in 1..Len(Collation) : Collation[i] = s

\* a.localeCompare(b) on last names: negative, zero or positive
localeCompare(a, b) == CollationIndex(a) - CollationIndex(b)

\* x || 0 for a row's ms: the number 0 is falsy
MsOrZero(x) == IF x.t = "number" /\ x.v = 0 THEN NumberEntry(0) ELSE x

\* function msSortDesc(a, b): bi - ai, NaN when either is NaN
msSortDesc(a, b) ==
    LET ai == Number(MsOrZero(a.ms))
        bi == Number(MsOrZero(b.ms))
    IN  IF ai.nan \/ bi.nan THEN NaN ELSE Num(bi.v - ai.v)

\* m !== 0: NaN is not 0
NotZero(m) == m.nan \/ m.v # 0

\* How Array.prototype.sort reads a comparator's result: NaN counts as +0
SortOrder(m) == IF m.nan THEN 0 ELSE m.v

\* the comparator of renderRoster: MS desc, then last name
rosterCompare(a, b) ==
    LET m == msSortDesc(a, b)
    IN  IF NotZero(m) THEN m ELSE Num(localeCompare(a.last, b.last))

\* rows.sort(rosterCompare): Array.prototype.sort is stable
RECURSIVE InsertRow(_, _)
InsertRow(sorted, x) ==
    IF sorted = <<>> THEN <<x>>
    ELSE IF SortOrder(rosterCompare(sorted[Len(sorted)], x)) <= 0 THEN Append(sorted, x)
    ELSE Append(InsertRow(SubSeq(sorted, 1, Len(sorted) - 1), x), sorted[Len(sorted)])

RECURSIVE SortRoster(_)
SortRoster(rows) ==
    IF rows = <<>> THEN <<>>
    ELSE InsertRow(SortRoster(SubSeq(rows, 1, Len(rows) - 1)), rows[Len(rows)])

\* script.js renderRoster(rows), rows not empty: one <tr> per row, with three
\* radio inputs that share the name r<idx>, none checked
ScriptRosterTable(rows) ==
    LET sorted == SortRoster(rows)
    IN  [i \in 1..Len(sorted) |->
            [first |-> sorted[i].first, last |-> sorted[i].last, ms |-> sorted[i].ms,
             checked |-> {}]]

\* btnLoadRoster click, up to the await (the campus of the query is left out
\* of the request's record)
ScriptLoadRosterClick ==
    /\ variant = "script"
    /\ loading < MaxPendingLoads
    /\ caught' = ""
    /\ IF ~endpointExists.roster
       THEN /\ msg' = errorLine("Roster API is not available on the server.")
            /\ UNCHANGED <<rost, loading, busy, lastReq>>          \* return
       ELSE /\ rost' = <<>>                             \* rosterOut.innerHTML = ""
            /\ busy' = TRUE
            /\ msg' = setBusyStatus(TRUE, "Loading <campus> roster...")
            /\ lastReq' = <<fetchJSONRequest("GET", Endpoints.roster, <<"campus">>)>>
            /\ loading' = loading + 1
    /\ UNCHANGED <<variant, pw, server, availVars, tabVars, aggVars, chartVars, probeVars,
                   adminPw, ready, saving, posted, repVars>>

\* btnLoadRoster click, after the await
ScriptLoadRosterResponse(resp) ==
    /\ variant = "script"
    /\ loading > 0
    /\ loading' = loading - 1
    /\ LET r == fetchJSON(resp)
       IN  IF r.threw
           THEN /\ UNCHANGED <<rost, ready>>
                /\ CatchFinally(r.message)
           ELSE /\ IF r.data.rows = <<>>
                   THEN rost' = <<>> /\ UNCHANGED ready  \* "No roster rows returned."
                   ELSE rost' = ScriptRosterTable(r.data.rows) /\ ready' = TRUE
                /\ TryFinally("Loaded <n> cadet(s).")
    /\ UNCHANGED <<variant, pw, server, lastReq, availVars, tabVars, aggVars, chartVars,
                   probeVars, adminPw, saving, posted, repVars>>

\* A click on a radio input: the inputs of a row share one name, so checking
\* one unchecks the others.
CheckRadio(checked, s) == {s}

ScriptMark(i, s) ==
    /\ variant = "script"
    /\ i \in 1..Len(rost)
    /\ rost' = [rost EXCEPT ![i].checked = CheckRadio(rost[i].checked, s)]
    /\ UNCHANGED <<variant, pageVars, availVars, tabVars, aggVars, chartVars, probeVars, adminPw, ready, loading, saving, posted, repVars>>

\* /^\d{4}-\d{2}-\d{2}$/.test(date)
IsIsoDate(s) ==
    /\ Len(s) = 10
    /\ \A i \in {1, 2, 3, 4, 6, 7, 9, 10} : IsDigit(s[i])
    /\ s[5] = "-" /\ s[8] = "-"

\* $$("input[type=radio]:checked", tr)[0]: the first checked input of the row
FirstChecked(checked) ==
    IF checked = {} THEN ""
    ELSE StatusOrder[CHOOSE k \in 1..Len(StatusOrder) :
            /\ StatusOrder[k] \in checked
            /\ \A j \in 1..(k - 1) : StatusOrder[j] \notin checked]

\* collectAttendancePayload(): the message of the error it throws, "" when it
\* returns
PayloadError(campus, eventType, date, slotLabel) ==
    CASE ~ready -> "Load a roster first."
      [] ready /\ campus = "" -> "Campus is required."
      [] ready /\ campus # "" /\ eventType = "" -> "Event type is required."
      [] ready /\ campus # "" /\ eventType # "" /\ ~IsIsoDate(Trim(date)) ->
             "Date must be yyyy-mm-dd."
      [] ready /\ campus # "" /\ eventType # "" /\ IsIsoDate(Trim(date))
               /\ Trim(slotLabel) = <<>> -> "Slot label is required."
      [] OTHER -> ""

\* collectAttendancePayload() throws
PayloadThrows(campus, eventType, date, slotLabel) ==
    PayloadError(campus, eventType, date, slotLabel) # ""

\* collectAttendancePayload(), when it returns
collectAttendancePayload(campus, eventType, date, slotLabel) ==
    [campus |-> campus, eventType |-> eventType, date |-> Trim(date),
     slotLabel |-> Trim(slotLabel),
     rows |-> [i \in 1..Len(rost) |->
                  [first |-> rost[i].first, last |-> rost[i].last, ms |-> rost[i].ms,
                   status |-> FirstChecked(rost[i].checked)]]]

\* btnSaveAttendance click, up to the await
ScriptSave(campus, eventType, date, slotLabel) ==
    /\ variant = "script"
    /\ saving < MaxInflight
    /\ IF ~endpointExists.save
       THEN /\ msg' = errorLine("Save API is not available on the server.")
            /\ caught' = ""
            /\ UNCHANGED <<posted, saving, busy, lastReq>>         \* return
       ELSE IF PayloadThrows(campus, eventType, date, slotLabel)
       THEN /\ CatchFinally(PayloadError(campus, eventType, date, slotLabel))
            /\ UNCHANGED <<posted, saving, lastReq>>               \* no request
       ELSE /\ posted' = <<collectAttendancePayload(campus, eventType, date, slotLabel)>>
            /\ caught' = ""
            /\ busy' = TRUE
            /\ msg' = setBusyStatus(TRUE, "Saving attendance...")
            /\ lastReq' = <<fetchJSONRequest("POST", Endpoints.save, <<>>)>>
            /\ saving' = saving + 1
    /\ UNCHANGED <<variant, pw, server, availVars, tabVars, aggVars, chartVars, probeVars,
                   adminPw, rost, ready, loading, repVars>>

\* btnSaveAttendance click, after the await
ScriptSaveResponse(resp) ==
    /\ variant = "script"
    /\ saving > 0
    /\ saving' = saving - 1
    /\ IF fetchJSON(resp).threw
       THEN CatchFinally(fetchJSON(resp).message)
       ELSE TryFinally("Attendance saved.")
    /\ UNCHANGED <<variant, pw, server, lastReq, availVars, tabVars, aggVars, chartVars,
                   probeVars, adminPw, rost, ready, loading, posted, repVars>>

\* ---- part_000 ----
\* [r.first, r.last].filter(Boolean).join(" "), as the parts joined
JoinName(r) == SelectSeq(<<r.first, r.last>>, LAMBDA part : part # "")

MessageRow(text) ==
    [name |-> <<text>>, ms |-> NumberEntry(0), boxes |-> FALSE, checked |-> {}]
LoadingRow == MessageRow("Loading roster")
NoEntriesRow == MessageRow("No roster entries.")
ErrorRow == MessageRow("Roster error")

\* loadRoster(): the table body for a non-empty response, one <tr> per row in
\* the server's order, with three check boxes, none checked
P0RosterTable(rows) ==
    [i \in 1..Len(rows) |->
        [name |-> JoinName(rows[i]), ms |-> rows[i].ms, boxes |-> TRUE, checked |-> {}]]

\* loadRoster(), up to the await (the block select changed)
P0LoadRoster ==
    /\ variant = "part_000"
    /\ loading < MaxPendingLoads
    /\ rost' = <<LoadingRow>>
    /\ loading' = loading + 1
    /\ UNCHANGED <<variant, pageVars, availVars, tabVars, aggVars, chartVars, probeVars, adminPw, ready, saving, posted, repVars>>

\* loadRoster(), after the await
P0LoadRosterResponse(resp) ==
    /\ variant = "part_000"
    /\ loading > 0
    /\ loading' = loading - 1
    /\ rost' = IF getJSONThrows(resp) \/ ~resp.ok THEN <<ErrorRow>>
               ELSE IF resp.rows = <<>> THEN <<NoEntriesRow>>
               ELSE P0RosterTable(resp.rows)
    /\ UNCHANGED <<variant, pageVars, availVars, tabVars, aggVars, chartVars, probeVars, adminPw, ready, saving, posted, repVars>>

\* A click on a check box toggles it and no other.
ToggleBox(checked, s) == IF s \in checked THEN checked \ {s} ELSE checked \cup {s}

P0Toggle(i, s) ==
    /\ variant = "part_000"
    /\ i \in 1..Len(rost)
    /\ rost[i].boxes
    /\ rost' = [rost EXCEPT ![i].checked = ToggleBox(rost[i].checked, s)]
    /\ UNCHANGED <<variant, pageVars, availVars, tabVars, aggVars, chartVars, probeVars, adminPw, ready, loading, saving, posted, repVars>>

\* const marks = qsa("#rost tbody tr").map(...): every row of the body, with
\* the text of its first cell as name
P0Marks ==
    [i \in 1..Len(rost) |->
        [name |-> rost[i].name,
         present |-> "Present" \in rost[i].checked,
         ftr |-> "FTR" \in rost[i].checked,
         excused |-> "Excused" \in rost[i].checked]]

\* Mutant: the POST is sent without looking at ADMIN_PW.
P0Save_noAdminCheck(block, date, type) ==
    /\ variant = "part_000"
    /\ IF Trim(date) = <<>>
       THEN UNCHANGED posted
       ELSE posted' = <<[admin_pw |-> adminPw,
                         label |-> toLowerCase(OrDefault(block, "gsu")),
                         date |-> Trim(date),
                         event_type |-> toUpperCase(OrDefault(type, "PT")),
                         event_other |-> <<>>,
                         marks |-> P0Marks]>>
    /\ UNCHANGED <<variant, pageVars, availVars, tabVars, aggVars, chartVars, probeVars,
                   adminPw, rost, ready, loading, saving, repVars>>

\* saveBtn click, up to the request
P0Save(block, date, type) ==
    /\ variant = "part_000"
    /\ IF Trim(date) = <<>> \/ adminPw = ""
       THEN UNCHANGED posted                            \* alert(...); return
       ELSE posted' = <<[admin_pw |-> adminPw,
                         label |-> toLowerCase(OrDefault(block, "gsu")),
                         date |-> Trim(date),
                         event_type |-> toUpperCase(OrDefault(type, "PT")),
                         event_other |-> <<>>,
                         marks |-> P0Marks]>>
    /\ UNCHANGED <<variant, pageVars, availVars, tabVars, aggVars, chartVars, probeVars, adminPw, rost, ready, loading, saving, repVars>>

(***************************************************************************)
(* Leaderboard                                                             *)
(***************************************************************************)
\* The rows of a leaderboard response: a person's name and cohort, the
\* totals the server ranked by, and the display metric (score for script.js,
\* points for part_000).
RowA == [name |-> "Adams", ms |-> "MS1", present |-> 2, ftr |-> 0, sessions |-> 2,
         score |-> 2, points |-> 2]
RowB == [name |-> "Baker", ms |-> "MS1", present |-> 1, ftr |-> 1, sessions |-> 2,
         score |-> 1, points |-> 1]
RowC == [name |-> "Clark", ms |-> "MS3", present |-> 1, ftr |-> 1, sessions |-> 2,
         score |-> 1, points |-> 1]
LbRows == {RowA, RowB, RowC}

\* getJSON("/api/att/leaderboard", {..., top: 50})
TopPart000 == 50
\* `...&top=10&mode=text`
TopPart001 == 10

\* A response longer than the size asked for
LongRows(n) == [i \in 1..n |-> IF i % 2 = 1 THEN RowA ELSE RowB]

LbRowSeqs == SeqsUpTo(LbRows, MaxRows) \cup {LongRows(TopPart000 + 1)}
LbReplies == {Reply(rows) : rows \in LbRowSeqs} \cup Failures
\* More of what fetchJSON can meet
FetchReplies == TransportFailures \cup {EmptyBody(TRUE), FalsyError(<<RowA>>)}

\* What can be typed into #lb_from and #lb_to
DateInputs == {<<>>, Date20, <<" ">> \o Date27}

\* encodeURIComponent, on the characters of the date fields
EncodeChar(c) ==
    CASE c = "/" -> <<"%", "2", "F">>
      [] c = " " -> <<"%", "2", "0">>
      [] OTHER -> <<c>>

RECURSIVE encodeURIComponent(_)
encodeURIComponent(s) ==
    IF s = <<>> THEN <<>> ELSE EncodeChar(Head(s)) \o encodeURIComponent(Tail(s))

NoTop == 0

\* part_000 getJSON: u.searchParams.set(k, v) unless v is "", which
\* percent-encodes v in u.toString()
SetParam(v) == IF v = <<>> THEN Absent ELSE Param(encodeURIComponent(v))

\* part_000: getJSON("/api/att/leaderboard", {label, from: dfrom, to: dto, top: 50})
P0LbRequest(from, to) ==
    [path |-> "/api/att/leaderboard", from |-> SetParam(Trim(from)),
     to |-> SetParam(Trim(to)), top |-> TopPart000, mode |-> ""]

\* part_001: `/api/att/leaderboard?...&from=${encodeURIComponent(from)}&to=...&top=10&mode=text`
P1LbRequest(from, to) ==
    [path |-> "/api/att/leaderboard", from |-> Param(encodeURIComponent(Trim(from))),
     to |-> Param(encodeURIComponent(Trim(to))), top |-> TopPart001, mode |-> "text"]

\* script.js: fetchJSON(state.endpoints.leaderboard)
ScriptLbRequest ==
    [path |-> "/api/reports/leaderboard", from |-> Absent, to |-> Absent,
     top |-> NoTop, mode |-> ""]

\* What the output element shows
Out(kind, rows) == [kind |-> kind, rows |-> rows]
InitialOut == Out("initial", <<>>)
BuildingOut == Out("building", <<>>)
ErrorOut == Out("error", <<>>)
NoDataOut == Out("nodata", <<>>)

\* Mutant: the rank is the row's index, counted from 0.
Rank_zeroBased(i) == i

\* `${i + 1}`, i the JavaScript index of the row
Rank(i) == i + 1

\* script.js renderLeaderboard(data), data.rows not empty
renderLeaderboard(rows) ==
    [k \in 1..Len(rows) |->
        [rank |-> Rank(k - 1), name |-> rows[k].name, ms |-> rows[k].ms,
         metric |-> rows[k].score]]

\* Mutant: the rows are sorted by points, highest first, before they are shown.
RECURSIVE InsertByPoints(_, _)
InsertByPoints(sorted, x) ==
    IF sorted = <<>> THEN <<x>>
    ELSE IF sorted[Len(sorted)].points >= x.points THEN Append(sorted, x)
    ELSE Append(InsertByPoints(SubSeq(sorted, 1, Len(sorted) - 1), x), sorted[Len(sorted)])

RECURSIVE SortByPoints(_)
SortByPoints(rows) ==
    IF rows = <<>> THEN <<>>
    ELSE InsertByPoints(SortByPoints(SubSeq(rows, 1, Len(rows) - 1)), rows[Len(rows)])

P0LeaderboardTable_sorted(rows) ==
    LET sorted == SortByPoints(rows)
    IN  [k \in 1..Len(sorted) |->
            [rank |-> Rank(k - 1), name |-> sorted[k].name, ms |-> "",
             metric |-> sorted[k].points]]

\* Mutant: only the first 50 rows are shown.
P0LeaderboardTable_truncated(rows) ==
    LET n == IF Len(rows) > TopPart000 THEN TopPart000 ELSE Len(rows)
    IN  [k \in 1..n |->
            [rank |-> Rank(k - 1), name |-> rows[k].name, ms |-> "",
             metric |-> rows[k].points]]

\* part_000: rows.map((r, i) => `<tr><td>${i + 1}</td><td>name</td><td>points</td></tr>`)
P0LeaderboardTable(rows) ==
    [k \in 1..Len(rows) |->
        [rank |-> Rank(k - 1), name |-> rows[k].name, ms |-> "",
         metric |-> rows[k].points]]

TypeLbFrom(v) ==
    /\ variant \in {"part_000", "part_001"}
    /\ lbFrom' = v
    /\ UNCHANGED <<variant, pageVars, availVars, tabVars, aggVars, chartVars, probeVars, attVars, lbTo, pending, lbResp, lbOut>>

TypeLbTo(v) ==
    /\ variant \in {"part_000", "part_001"}
    /\ lbTo' = v
    /\ UNCHANGED <<variant, pageVars, availVars, tabVars, aggVars, chartVars, probeVars, attVars, lbFrom, pending, lbResp, lbOut>>

\* Requests in flight are kept as a set: two clicks with the same dates are
\* one request here, answered once.
Send(req) ==
    /\ Cardinality(pending \cup {req}) <= MaxInflight
    /\ pending' = pending \cup {req}

\* Mutant: a click with from after to is dropped after "Building..." is shown.
P0LbClick_rangeChecked ==
    /\ variant = "part_000"
    /\ lbOut' = BuildingOut
    /\ IF Trim(lbFrom) = Date27 /\ Trim(lbTo) = Date20
       THEN UNCHANGED pending
       ELSE Send(P0LbRequest(lbFrom, lbTo))
    /\ UNCHANGED <<variant, pageVars, availVars, tabVars, aggVars, chartVars, probeVars, attVars, lbFrom, lbTo, lbResp>>

\* part_000 lbBtn click, up to the await
P0LbClick ==
    /\ variant = "part_000"
    /\ lbOut' = BuildingOut                             \* "Building..."
    /\ Send(P0LbRequest(lbFrom, lbTo))
    /\ UNCHANGED <<variant, pageVars, availVars, tabVars, aggVars, chartVars, probeVars, attVars, lbFrom, lbTo, lbResp>>

\* part_000 lbBtn click, after the await
P0LbResponse(req, resp) ==
    /\ variant = "part_000"
    /\ req \in pending
    /\ pending' = pending \ {req}
    /\ lbResp' = <<resp>>
    /\ lbOut' = IF getJSONThrows(resp) \/ ~resp.ok THEN ErrorOut
                ELSE IF resp.rows = <<>> THEN NoDataOut
                ELSE Out("table", P0LeaderboardTable(resp.rows))
    /\ UNCHANGED <<variant, pageVars, availVars, tabVars, aggVars, chartVars, probeVars, attVars, lbFrom, lbTo>>

\* part_001 lbBtn.onclick, up to the await
P1LbClick ==
    /\ variant = "part_001"
    /\ lbOut' = BuildingOut                             \* "Building leaderboard..."
    /\ Send(P1LbRequest(lbFrom, lbTo))
    /\ UNCHANGED <<variant, pageVars, availVars, tabVars, aggVars, chartVars, probeVars, attVars, lbFrom, lbTo, lbResp>>

\* part_001 lbBtn.onclick, after the await: the status is not looked at; the
\* server's text (its rows, one per line) is shown as it is
P1LbResponse(req, resp) ==
    /\ variant = "part_001"
    /\ req \in pending
    /\ pending' = pending \ {req}
    /\ lbResp' = <<resp>>
    /\ lbOut' = IF ~resp.ok THEN ErrorOut
                ELSE IF resp.rows = <<>> THEN NoDataOut  \* "(no data)"
                ELSE Out("text", resp.rows)
    /\ UNCHANGED <<variant, pageVars, availVars, tabVars, aggVars, chartVars, probeVars, attVars, lbFrom, lbTo>>

\* script.js btnLoadLeaderboard click, up to the await
ScriptLbClick ==
    /\ variant = "script"
    /\ caught' = ""
    /\ IF ~endpointExists.leaderboard
       THEN /\ msg' = errorLine("Leaderboard endpoint is not available.")
            /\ UNCHANGED <<pending, busy, lastReq>>                \* return
       ELSE /\ busy' = TRUE
            /\ msg' = setBusyStatus(TRUE, "Loading leaderboard...")
            /\ lastReq' = <<fetchJSONRequest("GET", Endpoints.leaderboard, <<>>)>>
            /\ Send(ScriptLbRequest)
    /\ UNCHANGED <<variant, pw, server, availVars, tabVars, aggVars, chartVars, probeVars,
                   attVars, lbFrom, lbTo, lbResp, lbOut>>

\* script.js btnLoadLeaderboard click, after the await: on a throw the error
\* goes to #msg and #reports-out keeps what it showed
ScriptLbResponse(req, resp) ==
    /\ variant = "script"
    /\ req \in pending
    /\ pending' = pending \ {req}
    /\ LET r == fetchJSON(resp)
       IN  IF r.threw
           THEN /\ UNCHANGED <<lbResp, lbOut>>
                /\ CatchFinally(r.message)
           ELSE /\ lbResp' = <<resp>>
                /\ lbOut' = IF r.data.rows = <<>> THEN NoDataOut
                            ELSE Out("table", renderLeaderboard(r.data.rows))
                /\ TryFinally("Leaderboard loaded.")
    /\ UNCHANGED <<variant, pw, server, lastReq, availVars, tabVars, aggVars, chartVars,
                   probeVars, attVars, lbFrom, lbTo>>

(***************************************************************************)
(* script.js: availability search                                          *)
(***************************************************************************)
\* s.replace(/\D/g, "")
RECURSIVE DigitsOnly(_)
DigitsOnly(str) ==
    IF str = <<>> THEN <<>>
    ELSE (IF IsDigit(Head(str)) THEN <<Head(str)>> ELSE <<>>) \o DigitsOnly(Tail(str))

\* s.padStart(4, "0")
RECURSIVE padStart4(_)
padStart4(str) == IF Len(str) >= 4 THEN str ELSE padStart4(<<"0">> \o str)

\* function pad4(s)
pad4(str) ==
    LET d == DigitsOnly(str)
    IN  IF d = <<>> THEN <<>>
        ELSE IF Len(d) <= 2 THEN padStart4(d) \o <<"0">>
        ELSE padStart4(d)

\* /^\d{4}$/.test(s)
IsFourDigits(str) == Len(str) = 4 /\ \A i \in 1..4 : IsDigit(str[i])

\* Number(s) for a string of digits
NumberOfDigits(str) == LeadingDigits(str, 0, FALSE).v

validDays == {"Monday", "Tuesday", "Wednesday", "Thursday", "Friday"}

\* String.prototype.trim on the values #day-select can hold
TrimDay(d) ==
    CASE d = " Friday " -> "Friday"
      [] OTHER -> d

DayMsg == "day must be one of [\"Monday\",\"Tuesday\",\"Wednesday\",\"Thursday\",\"Friday\"]"
StartMsg == "Start time must be HHMM (e.g., 0830)."
EndMsg == "End time must be HHMM (e.g., 1030)."
OrderMsg == "End time must be after Start time."
ValidationMsgs == {DayMsg, StartMsg, EndMsg, OrderMsg}

\* function validateAvailabilityInputs(): the message of the error it throws,
\* "" when it returns
ValidationError(day, start, end) ==
    LET d == TrimDay(day)
        st == pad4(start)
        en == pad4(end)
    IN  IF d \notin validDays THEN DayMsg
        ELSE IF ~IsFourDigits(st) THEN StartMsg
        ELSE IF ~IsFourDigits(en) THEN EndMsg
        ELSE IF NumberOfDigits(en) <= NumberOfDigits(st) THEN OrderMsg
        ELSE ""

\* function validateAvailabilityInputs(), when it returns
validateAvailabilityInputs(day, start, end) ==
    [day |-> TrimDay(day), start |-> pad4(start), end |-> pad4(end)]

\* The rows of an /api/available response
Ann == [first |-> "Ann", last |-> "adams", ms |-> NumberEntry(3)]
Bob == [first |-> "Bob", last |-> "Baker", ms |-> NumberEntry(4)]
Cal == [first |-> "Cal", last |-> "Clark", ms |-> NumberEntry(3)]
Dee == [first |-> "Dee", last |-> "Adams", ms |-> MsText(3)]
Eli == [first |-> "Eli", last |-> "Baker", ms |-> MsText(1)]
AvailPeople == {Ann, Bob, Cal, Dee, Eli}

\* the comparator of renderAvailability: MS desc, then last name in lower case
availabilityCompare(a, b) ==
    LET m == msSortDesc(a, b)
    IN  IF NotZero(m) THEN m
        ELSE Num(localeCompare(toLowerCase(a.last), toLowerCase(b.last)))

\* rows.sort(availabilityCompare): Array.prototype.sort is stable
RECURSIVE InsertAvailable(_, _)
InsertAvailable(sorted, x) ==
    IF sorted = <<>> THEN <<x>>
    ELSE IF SortOrder(availabilityCompare(sorted[Len(sorted)], x)) <= 0 THEN Append(sorted, x)
    ELSE Append(InsertAvailable(SubSeq(sorted, 1, Len(sorted) - 1), x), sorted[Len(sorted)])

RECURSIVE SortAvailable(_)
SortAvailable(rows) ==
    IF rows = <<>> THEN <<>>
    ELSE InsertAvailable(SortAvailable(SubSeq(rows, 1, Len(rows) - 1)), rows[Len(rows)])

\* What #availability-out shows
EmptyAvail == Out("empty", <<>>)
NobodyAvail == Out("nobody", <<>>)       \* "No one is available in that window."

\* function renderAvailability(rows): what it leaves in #availability-out
renderAvailability(rows) ==
    IF rows = <<>> THEN NobodyAvail ELSE Out("table", SortAvailable(rows))

\* The request of the search: `${available}?day=...&start=...&end=...`
SearchRequest(v) ==
    fetchJSONRequest("GET", Endpoints.available,
                     [day |-> v.day, start |-> encodeURIComponent(v.start),
                      end |-> encodeURIComponent(v.end)])

\* btnSearch click, up to the await
SearchClick ==
    /\ variant = "script"
    /\ availOut' = EmptyAvail                            \* availOut.innerHTML = ""
    /\ IF ValidationError(daySel, startInp, endInp) # ""
       THEN /\ CatchFinally(ValidationError(daySel, startInp, endInp))
            /\ UNCHANGED <<searching, lastReq>>                     \* no request
       ELSE LET req == SearchRequest(validateAvailabilityInputs(daySel, startInp, endInp))
            IN  /\ caught' = ""
                /\ busy' = TRUE
                /\ msg' = setBusyStatus(TRUE, "Searching availability...")
                /\ lastReq' = <<req>>
                /\ Cardinality(searching \cup {req}) <= MaxInflight
                /\ searching' = searching \cup {req}
    /\ UNCHANGED <<variant, pw, server, daySel, startInp, endInp, listeners, profiles,
                   modals, tabVars, aggVars, chartVars, probeVars, attVars, repVars>>

UnknownErrorMsg == "Unknown error"

\* btnSearch click, after the await. renderAvailability attaches one more
\* once-listener to #availability-out when the person endpoint exists.
SearchResponse(req, resp) ==
    /\ variant = "script"
    /\ req \in searching
    /\ searching' = searching \ {req}
    /\ LET r == fetchJSON(resp)
       IN  IF r.threw
           THEN /\ CatchFinally(r.message)
                /\ UNCHANGED <<availOut, listeners>>
           ELSE IF r.data.ok = "false"                   \* data.ok === false
           THEN /\ CatchFinally(UnknownErrorMsg)
                /\ UNCHANGED <<availOut, listeners>>
           ELSE /\ availOut' = renderAvailability(r.data.rows)
                /\ IF r.data.rows # <<>> /\ endpointExists.person
                   THEN listeners < MaxListeners /\ listeners' = listeners + 1
                   ELSE UNCHANGED listeners
                /\ TryFinally("Found <n> cadet(s).")
    /\ UNCHANGED <<variant, pw, server, lastReq, daySel, startInp, endInp, profiles,
                   modals, tabVars, aggVars, chartVars, probeVars, attVars, repVars>>

\* Typing into #start-input and #end-input, choosing a day
TypeSearch(day, start, end) ==
    /\ variant = "script"
    /\ daySel' = day
    /\ startInp' = start
    /\ endInp' = end
    /\ UNCHANGED <<variant, pageVars, availOut, searching, listeners, profiles, modals,
                   tabVars, aggVars, chartVars, probeVars, attVars, repVars>>

\* A click inside #availability-out, on the person button of row i or (i = 0)
\* beside the buttons: every once-listener attached runs and is gone; on a
\* button each of them asks for the profile.
PersonClick(i) ==
    /\ variant = "script"
    /\ listeners > 0
    /\ i \in 0..Len(availOut.rows)
    /\ listeners' = 0
    /\ IF i = 0
       THEN UNCHANGED <<profiles, busy, msg, caught, lastReq>>     \* if (!btn) return
       ELSE /\ profiles + listeners <= MaxInflight
            /\ profiles' = profiles + listeners
            /\ caught' = ""
            /\ busy' = TRUE
            /\ msg' = setBusyStatus(TRUE, "Loading profile...")
            /\ lastReq' = <<fetchJSONRequest("GET", Endpoints.person,
                                             [first |-> availOut.rows[i].first,
                                              last |-> availOut.rows[i].last])>>
    /\ UNCHANGED <<variant, pw, server, daySel, startInp, endInp, availOut, searching,
                   modals, tabVars, aggVars, chartVars, probeVars, attVars, repVars>>

\* the person click, after the await: showPersonModal(data) appends a modal
PersonResponse(resp) ==
    /\ variant = "script"
    /\ profiles > 0
    /\ profiles' = profiles - 1
    /\ IF fetchJSON(resp).threw
       THEN CatchFinally(fetchJSON(resp).message) /\ UNCHANGED modals
       ELSE /\ modals < MaxModals
            /\ modals' = modals + 1
            /\ TryFinally("")
    /\ UNCHANGED <<variant, pw, server, lastReq, daySel, startInp, endInp, availOut,
                   searching, listeners, tabVars, aggVars, chartVars, probeVars, attVars,
                   repVars>>

\* A click on a modal's backdrop or its close button: modal.remove()
CloseModal ==
    /\ variant = "script"
    /\ modals > 0
    /\ modals' = modals - 1
    /\ UNCHANGED <<variant, pageVars, daySel, startInp, endInp, availOut, searching,
                   listeners, profiles, tabVars, aggVars, chartVars, probeVars, attVars,
                   repVars>>

(***************************************************************************)
(* Tabs                                                                    *)
(***************************************************************************)
\* script.js: a click on a .navbtn button
ScriptTabClick(which) ==
    /\ variant = "script"
    /\ which \in NavButtons
    /\ clicked' = which
    /\ showTab(which)
    /\ UNCHANGED <<variant, pageVars, availVars, p1Vars, aggVars, chartVars, probeVars,
                   attVars, repVars>>

\* The .panel elements of part_000's page, by id; each .tab button names one
\* of them in its data-for
P0Panels == {"availability", "attendance", "reports"}

\* part_000 wireTabs(): function show(name)
P0Show(name) ==
    /\ tabsOn' = {b \in P0Panels : b = name}
    /\ panels' = {p \in P0Panels : p = name}

\* part_000: a click on a .tab button
P0TabClick(name) ==
    /\ variant = "part_000"
    /\ name \in P0Panels
    /\ clicked' = name
    /\ P0Show(name)
    /\ UNCHANGED <<variant, pageVars, availVars, p1Vars, aggVars, chartVars, probeVars,
                   attVars, repVars>>

\* The .panel elements of part_001's page, by id
P1Panels == {"availability", "directory", "reports"}

\* Mutant: every opening of the reports tab refreshes the charts; the
\* __charts_loaded__ flag is set but not looked at.
P1TabClick_everyOpen(tgt) ==
    /\ variant = "part_001"
    /\ tgt \in P1Panels
    /\ clicked' = tgt
    /\ tabsOn' = {tgt}
    /\ panels' = {tgt}
    /\ IF tgt = "directory" /\ ~dirLoaded
       THEN dirPending < MaxPendingLoads /\ dirPending' = dirPending + 1
       ELSE UNCHANGED dirPending
    /\ IF tgt = "reports"
       THEN chartRuns' = chartRuns + 1 /\ chartsLoaded' = TRUE
       ELSE UNCHANGED <<chartRuns, chartsLoaded>>
    /\ UNCHANGED <<variant, pageVars, availVars, dirLoaded, aggVars, chartVars, probeVars,
                   attVars, repVars>>

\* part_001: a click on a .tab button, with loadDirectory() and
\* refreshCharts() up to their await
P1TabClick(tgt) ==
    /\ variant = "part_001"
    /\ tgt \in P1Panels
    /\ clicked' = tgt
    /\ tabsOn' = {tgt}
    /\ panels' = {tgt}
    /\ IF tgt = "directory" /\ ~dirLoaded
       THEN dirPending < MaxPendingLoads /\ dirPending' = dirPending + 1
       ELSE UNCHANGED dirPending
    /\ IF tgt = "reports" /\ ~chartsLoaded
       THEN chartRuns' = chartRuns + 1 /\ chartsLoaded' = TRUE
       ELSE UNCHANGED <<chartRuns, chartsLoaded>>
    /\ UNCHANGED <<variant, pageVars, availVars, dirLoaded, aggVars, chartVars, probeVars,
                   attVars, repVars>>

\* part_001 loadDirectory(), after the await: out.dataset.loaded = "1" once
\* the list is rendered
P1DirectoryResponse(resp) ==
    /\ variant = "part_001"
    /\ dirPending > 0
    /\ dirPending' = dirPending - 1
    /\ dirLoaded' = (dirLoaded \/ (resp.net /\ resp.body = "json" /\ resp.ok))
    /\ UNCHANGED <<variant, pageVars, availVars, panels, tabsOn, clicked, chartsLoaded,
                   chartRuns, aggVars, chartVars, probeVars, attVars, repVars>>

(***************************************************************************)
(* Attendance Aggregator (spec 4.1; the server side, not among the client  *)
(* scripts)                                                                *)
(***************************************************************************)
\* Dates are days 1..MaxDay. A request's records give each person at most one
\* status per date ("none": no record), as the data model requires.
AggRoster == <<"A", "B">>
AggCohort(p) == IF p = "A" THEN "MS1" ELSE "MS3"
AggDays == 1..MaxDay

\* What the records of a request can say
AggRecords ==
    {r \in [{"A", "B"} \X AggDays -> Statuses \cup {"none"}] :
        \A d \in AggDays : r[<<"B", d>>] \in {"none", "FTR"}}

AggInputs ==
    [records : AggRecords, roster : {<<"A">>, AggRoster}, event_dates : SUBSET AggDays,
     from : AggDays, to : AggDays]

\* The known event dates in the inclusive range [from, to]
KnownEvents(in) == {d \in in.event_dates : in.from <= d /\ d <= in.to}

\* Mutant: every record in range is counted, also one on a date that is not
\* a known event date.
CountOf_anyDate(in, p, status) ==
    Cardinality({d \in AggDays : /\ in.from <= d /\ d <= in.to
                                /\ in.records[<<p, d>>] = status})

\* For each known event date in range: a record increments the matching
\* counter, no record increments absent_count.
CountOf(in, p, status) ==
    Cardinality({d \in KnownEvents(in) : in.records[<<p, d>>] = status})

PersonTotals(in, p) ==
    [person_id |-> p, cohort |-> AggCohort(p),
     present_count |-> CountOf(in, p, "Present"),
     ftr_count |-> CountOf(in, p, "FTR"),
     excused_count |-> CountOf(in, p, "Excused"),
     absent_count |-> CountOf(in, p, "none"),
     sessions_count |-> Cardinality(KnownEvents(in))]

\* The aggregation: InvalidRangeError when from > to; otherwise one
\* PersonTotals per person of the roster who has a known event in range.
Aggregate(in) ==
    IF in.from > in.to THEN [error |-> "InvalidRangeError", persons |-> <<>>]
    ELSE [error |-> "",
          persons |-> IF KnownEvents(in) = {} THEN <<>>
                      ELSE [k \in 1..Len(in.roster) |-> PersonTotals(in, in.roster[k])]]

AggregateCall ==
    /\ variant = "aggregator"
    /\ totals' = <<Aggregate(aggIn)>>
    /\ UNCHANGED <<variant, chartVars, probeVars, attVars, repVars, pageVars, availVars,
                   tabVars, aggIn>>

(***************************************************************************)
(* Specifications                                                          *)
(***************************************************************************)
\* The state of a script the page does not run
ChartOff ==
    /\ series = [present |-> ArrayOf(<<>>), ftr |-> ArrayOf(<<>>), excused |-> ArrayOf(<<>>)]
    /\ smoothness = Num(InitialSmoothness)
    /\ chart = buildChart(series, smoothness)
    /\ thrown = "none"

ProbeInit ==
    /\ endpointExists = NoEndpoints
    /\ probeStep = 0

AttendanceOff ==
    /\ adminPw = ""
    /\ rost = <<>>
    /\ ready = FALSE
    /\ loading = 0
    /\ saving = 0
    /\ posted = <<>>

ReportsOff ==
    /\ lbFrom = <<>>
    /\ lbTo = <<>>
    /\ pending = {}
    /\ lbResp = <<>>
    /\ lbOut = InitialOut

\* script.js after its body and init() up to the first await: the tip when
\* there is no pw, the first probe in flight
ScriptPageInit ==
    /\ msg = IF pw = <<>> THEN statusLine(Tip) ELSE statusLine("")
    /\ busy = FALSE
    /\ caught = ""
    /\ lastReq = <<HeadRequest(Endpoints[ProbeOrder[1]])>>

OptionalEndpoints == {"person", "roster", "save", "leaderboard"}
PwValues == {<<>>, <<"p", "&", "w">>}

PageOff ==
    /\ pw = <<>>
    /\ msg = [text |-> "", error |-> FALSE]
    /\ busy = FALSE
    /\ caught = ""
    /\ server = {}
    /\ lastReq = <<>>

AvailOff ==
    /\ daySel = ""
    /\ startInp = <<>>
    /\ endInp = <<>>
    /\ availOut = EmptyAvail
    /\ searching = {}
    /\ listeners = 0
    /\ profiles = 0
    /\ modals = 0

\* The panel the page's HTML shows at first, with its tab button highlighted
\* (part_000's wireTabs() makes it so)
TabsInit(first) ==
    /\ panels = {first}
    /\ tabsOn = {first}
    /\ clicked = ""
    /\ dirLoaded = FALSE
    /\ dirPending = 0
    /\ chartsLoaded = FALSE
    /\ chartRuns = 0

\* script.js's page before a search: init() filled in the two times
SearchInit ==
    /\ daySel = "Monday"
    /\ startInp = <<"0", "8", "3", "0">>
    /\ endInp = <<"1", "0", "3", "0">>
    /\ availOut = EmptyAvail
    /\ searching = {}
    /\ listeners = 0
    /\ profiles = 0
    /\ modals = 0

TabsOff ==
    /\ panels = {}
    /\ tabsOn = {}
    /\ clicked = ""
    /\ dirLoaded = FALSE
    /\ dirPending = 0
    /\ chartsLoaded = FALSE
    /\ chartRuns = 0

AggOff ==
    /\ aggIn = <<>>
    /\ totals = <<>>

\* ---- chart_controls.js ----
InitChart ==
    /\ variant = "chart_controls"
    /\ series \in [present : PresentInputs, ftr : OtherInputs, excused : OtherInputs]
    /\ smoothness = Num(InitialSmoothness)
    /\ chart = buildChart(series, smoothness)      \* let chart = buildChart()
    /\ thrown = "none"
    /\ ProbeInit /\ AttendanceOff /\ ReportsOff
    /\ PageOff /\ AvailOff /\ TabsOff /\ AggOff

NextChart == \E value \in SliderValues : SliderInput(value)

SpecChart == InitChart /\ [][NextChart]_vars

\* ---- attendance: script.js or part_000 ----
\* part_000 calls loadRoster() as it wires the page, so it starts with the
\* first roster request in flight.
InitAttendance ==
    /\ variant \in {"script", "part_000"}
    /\ adminPw \in (IF variant = "part_000" THEN {"", "secret"} ELSE {""})
    /\ rost = IF variant = "part_000" THEN <<LoadingRow>> ELSE <<>>
    /\ loading = IF variant = "part_000" THEN 1 ELSE 0
    /\ ready = FALSE
    /\ saving = 0
    /\ posted = <<>>
    /\ ChartOff /\ ProbeInit /\ ReportsOff
    /\ IF variant = "script"
       THEN /\ pw = <<"p", "&", "w">>
            /\ server \in {{}, {"roster"}, {"roster", "save"}}
            /\ ScriptPageInit /\ SearchInit
       ELSE PageOff /\ AvailOff
    /\ TabsInit("availability") /\ AggOff

NextAttendance ==
    \/ ScriptProbe(TRUE)
    \/ ScriptLoadRosterClick
    \/ \E resp \in RosterReplies : ScriptLoadRosterResponse(resp)
    \/ \E i \in 1..Len(rost), s \in Statuses : ScriptMark(i, s)
    \/ \E campus \in {"", "GSU"}, eventType \in {"", "PT"},
          date \in {<<>>, Date27, IsoDate27 \o <<" ">>},
          slotLabel \in {<<>>, <<"P", "T">>} :
            ScriptSave(campus, eventType, date, slotLabel)
    \/ \E resp \in RosterReplies : ScriptSaveResponse(resp)
    \/ P0LoadRoster
    \/ \E resp \in RosterReplies : P0LoadRosterResponse(resp)
    \/ \E i \in 1..Len(rost), s \in Statuses : P0Toggle(i, s)
    \/ \E block \in {"", "ULM"}, date \in {<<>>, <<" ">>, Date27}, type \in {"", "Lab"} :
            P0Save(block, date, type)

SpecAttendance == InitAttendance /\ [][NextAttendance]_vars

\* ---- leaderboard: script.js, part_000 or part_001 ----
InitReports ==
    /\ variant \in {"script", "part_000", "part_001"}
    /\ ChartOff /\ ProbeInit /\ AttendanceOff /\ ReportsOff
    /\ IF variant = "script"
       THEN pw \in PwValues /\ server = OptionalEndpoints /\ ScriptPageInit /\ SearchInit
       ELSE PageOff /\ AvailOff
    /\ TabsInit("availability") /\ AggOff

NextReports ==
    \/ \E ok \in BOOLEAN : ScriptProbe(ok)
    \/ \E v \in DateInputs : TypeLbFrom(v)
    \/ \E v \in DateInputs : TypeLbTo(v)
    \/ P0LbClick
    \/ \E req \in pending, resp \in LbReplies : P0LbResponse(req, resp)
    \/ P1LbClick
    \/ \E req \in pending, resp \in LbReplies : P1LbResponse(req, resp)
    \/ ScriptLbClick
    \/ \E req \in pending, resp \in LbReplies \cup FetchReplies : ScriptLbResponse(req, resp)

SpecReports == InitReports /\ [][NextReports]_vars

\* ---- attendance aggregation ----
InitAggregator ==
    /\ variant = "aggregator"
    /\ aggIn \in AggInputs
    /\ totals = <<>>
    /\ ChartOff /\ ProbeInit /\ AttendanceOff /\ ReportsOff
    /\ PageOff /\ AvailOff /\ TabsOff

NextAggregator == AggregateCall

SpecAggregator == InitAggregator /\ [][NextAggregator]_vars

\* ---- tabs: script.js, part_000 or part_001 ----
InitTabs ==
    /\ variant \in {"script", "part_000", "part_001"}
    /\ TabsInit("availability")
    /\ ChartOff /\ ProbeInit /\ AttendanceOff /\ ReportsOff /\ AggOff
    /\ IF variant = "script"
       THEN pw \in PwValues /\ server \in {{}, OptionalEndpoints} /\ ScriptPageInit /\ SearchInit
       ELSE PageOff /\ AvailOff

NextTabs ==
    \/ \E reached \in BOOLEAN : ScriptProbe(reached)
    \/ \E which \in NavButtons : ScriptTabClick(which)
    \/ \E name \in P0Panels : P0TabClick(name)
    \/ \E tgt \in P1Panels : P1TabClick(tgt)
    \/ \E resp \in {Reply(<<Al>>), NotOk, NetworkError} : P1DirectoryResponse(resp)

SpecTabs == InitTabs /\ [][NextTabs]_vars

\* ---- script.js: the whole page, one request in flight at a time ----
ScriptInFlight ==
    loading + saving + profiles + Cardinality(pending) + Cardinality(searching)

Quiet == ScriptInFlight < MaxInflight

InitScript ==
    /\ variant = "script"
    /\ pw \in PwValues
    /\ server \in {{}, {"person", "roster"}, OptionalEndpoints}
    /\ ScriptPageInit /\ SearchInit /\ TabsInit("availability")
    /\ adminPw = "" /\ rost = <<>> /\ ready = FALSE /\ loading = 0 /\ saving = 0
    /\ posted = <<>>
    /\ ChartOff /\ ProbeInit /\ ReportsOff /\ AggOff

NextScript ==
    \/ ScriptProbe(TRUE)
    \/ Quiet /\ SearchClick
    \/ \E req \in searching, resp \in {Reply(<<Ann>>), HttpError} : SearchResponse(req, resp)
    \/ Quiet /\ \E i \in 0..1 : PersonClick(i)
    \/ \E resp \in {Reply(<<>>), NonJson(TRUE)} : PersonResponse(resp)
    \/ CloseModal
    \/ Quiet /\ ScriptLoadRosterClick
    \/ \E resp \in {Reply(<<Al>>), NetworkError} : ScriptLoadRosterResponse(resp)
    \/ Quiet /\ \E slotLabel \in {<<>>, <<"P", "T">>} :
                    ScriptSave("GSU", "PT", IsoDate27, slotLabel)
    \/ \E resp \in {Reply(<<>>), HttpErrorPlain} : ScriptSaveResponse(resp)
    \/ Quiet /\ ScriptLbClick
    \/ \E req \in pending, resp \in {Reply(<<RowA>>), EmptyBody(FALSE)} :
           ScriptLbResponse(req, resp)

SpecScript == InitScript /\ [][NextScript]_vars

\* ---- script.js: the availability search ----
\* What can be typed into #start-input and #end-input
TimeInputs ==
    {<<>>, <<"9">>, <<"1", "0">>, <<"8", "3", "0">>, <<"0", "8", "3", "0">>,
     <<"1", "0", ":", "3", "0">>, <<"1", "0", "3", "0", "0">>}
DayInputs == {"Monday", " Friday ", "Sunday", ""}

AvailRowSeqs ==
    {<<>>, <<Bob>>, <<Ann, Bob>>, <<Cal, Ann>>, <<Bob, Cal, Ann>>, <<Eli, Dee>>, <<Dee, Eli>>}
AvailReplies ==
    {Reply(rows) : rows \in AvailRowSeqs} \cup Failures \cup TransportFailures
        \cup {EmptyBody(TRUE), FalsyError(<<Bob>>)}

InitSearch ==
    /\ variant = "script"
    /\ pw \in PwValues
    /\ server \in {{}, {"person"}}
    /\ ScriptPageInit /\ SearchInit /\ TabsInit("availability")
    /\ ChartOff /\ ProbeInit /\ AttendanceOff /\ ReportsOff /\ AggOff

NextSearch ==
    \/ \E reached \in BOOLEAN : ScriptProbe(reached)
    \/ \E start \in {<<"9">>, <<"0", "8", "3", "0">>} : TypeSearch("Monday", start, endInp)
    \/ SearchClick
    \/ \E req \in searching, resp \in AvailReplies : SearchResponse(req, resp)
    \/ \E i \in 0..Len(availOut.rows) : PersonClick(i)
    \/ \E resp \in {Reply(<<>>), NotOk, NetworkError} : PersonResponse(resp)
    \/ CloseModal

SpecSearch == InitSearch /\ [][NextSearch]_vars

\* ---- script.js: the inputs of the availability search ----
InitValidate ==
    /\ variant = "script"
    /\ pw = <<>>
    /\ server = {}
    /\ ScriptPageInit /\ SearchInit /\ TabsInit("availability")
    /\ ChartOff /\ ProbeInit /\ AttendanceOff /\ ReportsOff /\ AggOff

NextValidate ==
    \/ \E day \in DayInputs, start \in TimeInputs, end \in TimeInputs :
           TypeSearch(day, start, end)
    \/ SearchClick
    \/ \E req \in searching : SearchResponse(req, Reply(<<>>))

SpecValidate == InitValidate /\ [][NextValidate]_vars

(***************************************************************************)
(* Claims about the smoothed series (checked under SpecChart)              *)
(***************************************************************************)
Datasets == {"present", "ftr", "excused"}

AllNumeric(items) == \A j \in 1..Len(items) : items[j].t = "number"

\* The sum of the numeric samples items[lo..hi] (1-based, inclusive).
RECURSIVE RangeSum(_, _, _)
RangeSum(items, lo, hi) ==
    IF lo > hi THEN 0 ELSE items[hi].v + RangeSum(items, lo, hi - 1)

\* The first sample (1-based) of the trailing window of size w that ends at i.
TrailingLo(i, w) == IF i - w + 1 > 1 THEN i - w + 1 ELSE 1

WindowAtLeastOne == ~smoothness.nan /\ smoothness.v >= 1

Example246 == ArrayOf(<<NumberEntry(2), NumberEntry(4), NumberEntry(6)>>)

\* C1: for every array of numeric samples and every window size w >= 1, each
\* output value is the arithmetic mean of the samples of the trailing window
\* that ends at its index (fewer samples at the start, no zero padding), and
\* [2,4,6] with w = 2 gives [2,3,5].
C1_TrailingMean ==
    \A k \in Datasets :
        LET d == series[k]
            out == chart[k]
        IN  (d.arr /\ AllNumeric(d.items) /\ WindowAtLeastOne) =>
                /\ DOMAIN out = 1..Len(d.items)
                /\ \A i \in 1..Len(d.items) :
                       LET lo == TrailingLo(i, smoothness.v)
                       IN  out[i].num * (i - lo + 1) = out[i].den * RangeSum(d.items, lo, i)
                /\ (d = Example246 /\ smoothness.v = 2) =>
                       out = <<Whole(2), Whole(3), Whole(5)>>

C1_Witness ==
    /\ series.present = Example246
    /\ smoothness = Num(2)
    /\ chart.present = <<Whole(2), Whole(3), Whole(5)>>

\* C2: for every input array and every window from 1 to the input's length,
\* the output has the input's length.
C2_SameLength ==
    \A k \in Datasets :
        LET d == series[k]
        IN  (d.arr /\ WindowAtLeastOne /\ smoothness.v <= Len(d.items)) =>
                Len(chart[k]) = Len(d.items)

C2_Witness ==
    /\ series.present.arr
    /\ Len(series.present.items) = MaxLen
    /\ smoothness = Num(2)
    /\ Len(chart.present) = MaxLen

WindowBelowOne == ~smoothness.nan /\ smoothness.v < 1

\* C4 as stated: a window size below 1 fails with InvalidArgumentError and
\* produces no smoothed series.
C4_AsStated ==
    WindowBelowOne =>
        /\ thrown = "InvalidArgumentError"
        /\ \A k \in Datasets : chart[k] = <<>>

\* C4 amended: a window size below 1 does not fail; every window is empty
\* and the smoothed series has the input's length and is 0 at every index.
C4_ZeroSeries ==
    WindowBelowOne =>
        /\ thrown = "none"
        /\ \A k \in Datasets :
               series[k].arr =>
                   /\ Len(chart[k]) = Len(series[k].items)
                   /\ \A i \in 1..Len(chart[k]) : chart[k][i] = Whole(0)

C4_Witness ==
    /\ smoothness = Num(0)
    /\ series.present = Example246
    /\ chart.present = <<Whole(0), Whole(0), Whole(0)>>

\* What an entry counts for in a window's sum: a number counts as itself,
\* true as 1, a text that is no number as 0.
CountsAs(e) ==
    CASE e.t = "number" -> e.v
      [] e.t = "boolean" -> 1
      [] OTHER -> 0

RECURSIVE CountSum(_, _, _)
CountSum(items, lo, hi) ==
    IF lo > hi THEN 0 ELSE CountsAs(items[hi]) + CountSum(items, lo, hi - 1)

\* C5 as stated: an input with a non-numeric entry fails with
\* InvalidInputError.
C5_AsStated ==
    \A k \in Datasets :
        (series[k].arr /\ ~AllNumeric(series[k].items)) => thrown = "InvalidInputError"

\* C5 amended: an input with a non-numeric entry does not fail; the entry is
\* coerced with Number(b) || 0 (a text that is no number counts as 0, true as
\* 1) and still counts in the length of every window that holds it.
C5_CoercedToNumber ==
    \A k \in Datasets :
        LET d == series[k]
            out == chart[k]
        IN  (d.arr /\ ~AllNumeric(d.items)) =>
                /\ thrown = "none"
                /\ Len(out) = Len(d.items)
                /\ WindowAtLeastOne =>
                       \A i \in 1..Len(d.items) :
                           LET lo == TrailingLo(i, smoothness.v)
                           IN  out[i].num * (i - lo + 1) = out[i].den * CountSum(d.items, lo, i)

C5_Witness ==
    /\ series.present = ArrayOf(<<NumberEntry(4), TextEntry, TrueEntry>>)
    /\ smoothness = Num(2)
    /\ chart.present = <<Whole(4), Whole(2), Quot(1, 2)>>

(***************************************************************************)
(* Claims about the attendance marks (checked under SpecAttendance)        *)
(***************************************************************************)
\* The statuses a submitted row or mark carries
StatusesOfRow(row) == IF row.status = "" THEN {} ELSE {row.status}
StatusesOfMark(mark) ==
    {s \in Statuses : \/ s = "Present" /\ mark.present
                      \/ s = "FTR" /\ mark.ftr
                      \/ s = "Excused" /\ mark.excused}

\* C6: in every attendance submission each person carries at most one of the
\* statuses Present, FTR, Excused.
C6_AsStated ==
    \A b \in 1..Len(posted) :
        IF variant = "part_000"
        THEN \A i \in 1..Len(posted[b].marks) :
                 Cardinality(StatusesOfMark(posted[b].marks[i])) <= 1
        ELSE \A i \in 1..Len(posted[b].rows) :
                 Cardinality(StatusesOfRow(posted[b].rows[i])) <= 1

(***************************************************************************)
(* Claims about the leaderboard (checked under SpecReports)                *)
(***************************************************************************)
Shown == lbOut.kind \in {"table", "text"}

\* C7: the rank numbers of a rendered leaderboard start at 1, are contiguous
\* and strictly increasing in display order, whatever rows the server sent.
C7_RanksContiguous ==
    lbOut.kind = "table" =>
        \A k \in 1..Len(lbOut.rows) : lbOut.rows[k].rank = k

C7_Witness ==
    /\ variant = "script"
    /\ lbOut.kind = "table"
    /\ Len(lbOut.rows) = 2
    /\ lbOut.rows[2].rank = 2

\* The cohort rules: junior cohorts by present desc, sessions desc, person
\* asc; senior cohorts by ftr asc, present desc, person asc.
Junior == {"MS1", "MS2"}
NameBefore(a, b) == CollationIndex(a.name) < CollationIndex(b.name)

\* a must come before b
RuleBefore(a, b) ==
    IF a.ms \in Junior
    THEN \/ a.present > b.present
         \/ a.present = b.present /\ a.sessions > b.sessions
         \/ a.present = b.present /\ a.sessions = b.sessions /\ NameBefore(a, b)
    ELSE \/ a.ftr < b.ftr
         \/ a.ftr = b.ftr /\ a.present > b.present
         \/ a.ftr = b.ftr /\ a.present = b.present /\ NameBefore(a, b)

InRuleOrder(rows) ==
    \A i \in 1..Len(rows), j \in 1..Len(rows) :
        (i < j /\ rows[i].ms = rows[j].ms) => ~RuleBefore(rows[j], rows[i])

\* The totals of the person a displayed entry names
TotalsOf(name) == CHOOSE r \in LbRows : r.name = name
ShownTotals == [k \in 1..Len(lbOut.rows) |-> TotalsOf(lbOut.rows[k].name)]
NamesOf(rows) == [k \in 1..Len(rows) |-> rows[k].name]

\* C8 as stated: the displayed entries of every cohort are in the order of
\* that cohort's rule, for every input order.
C8_AsStated == Shown => InRuleOrder(ShownTotals)

\* C8 amended: the client neither sorts nor regroups; the entries are
\* displayed in the order of the server's rows, and so are in the cohort
\* rule's order exactly when the server's rows are.
C8_ServerOrderKept ==
    Shown =>
        /\ lbResp # <<>>
        /\ NamesOf(lbOut.rows) = NamesOf(lbResp[1].rows)
        /\ InRuleOrder(ShownTotals) <=> InRuleOrder(lbResp[1].rows)

C8_Witness ==
    /\ variant = "part_000"
    /\ lbOut.kind = "table"
    /\ lbResp = <<Reply(<<RowB, RowA>>)>>
    /\ NamesOf(lbOut.rows) = <<"Baker", "Adams">>

TopOf(v) == IF v = "part_000" THEN TopPart000 ELSE TopPart001

\* C9 as stated: a displayed leaderboard holds at most top_n entries.
C9_AsStated ==
    (variant \in {"part_000", "part_001"} /\ Shown) => Len(lbOut.rows) <= TopOf(variant)

\* C9 amended: the client asks the server for top_n entries (top=50 in
\* part_000, top=10 in part_001) and displays every row of the response: as
\* many entries as the server returned, more than top_n if it returned more.
C9_AllRowsShown ==
    variant \in {"part_000", "part_001"} =>
        /\ \A req \in pending : req.top = TopOf(variant)
        /\ Shown => /\ lbResp # <<>>
                    /\ Len(lbOut.rows) = Len(lbResp[1].rows)

C9_Witness ==
    /\ variant = "part_000"
    /\ lbOut.kind = "table"
    /\ Len(lbOut.rows) = TopPart000 + 1

\* The day a date parameter names, as the server reads it (0: no date)
Encoded20 == encodeURIComponent(Date20)
Encoded27 == encodeURIComponent(Date27)
DayOfParam(p) ==
    CASE p.present /\ p.text = Encoded20 -> 20
      [] p.present /\ p.text = Encoded27 -> 27
      [] OTHER -> 0

\* The day typed into a date field (0: none)
DayTyped(field) ==
    CASE field = Date20 -> 20
      [] field = <<" ">> \o Date27 -> 27
      [] OTHER -> 0

FromAfterTo(req) ==
    DayOfParam(req.from) # 0 /\ DayOfParam(req.to) # 0 /\ DayOfParam(req.from) > DayOfParam(req.to)

\* C10 as stated: a leaderboard call whose from date is after its to date
\* fails and returns no result.
C10_AsStated ==
    [][\A req \in pending :
           (FromAfterTo(req) /\ req \notin pending') => lbOut'.kind = "error"]_vars

\* C10 amended: the client does not compare the dates. A click sends the
\* request with from and to as typed (trimmed), also when from is after to,
\* and the answer to such a request is displayed like any other: an error
\* message if the server refused it, the leaderboard if the server sent one.
C10_SentAsTyped ==
    [][/\ (/\ variant \in {"part_000", "part_001"}
           /\ lbOut'.kind = "building"
           /\ (lbOut.kind # "building" \/ pending' # pending))
          => \E req \in pending' : /\ DayOfParam(req.from) = DayTyped(lbFrom)
                                   /\ DayOfParam(req.to) = DayTyped(lbTo)
       /\ \A req \in pending :
              (variant \in {"part_000", "part_001"} /\ FromAfterTo(req) /\ req \notin pending')
              => /\ lbResp' # <<>>
                 /\ lbOut'.kind = "error" <=> ~lbResp'[1].ok
                 /\ (lbResp'[1].ok /\ lbResp'[1].rows # <<>>) =>
                        (Shown' /\ Len(lbOut'.rows) = Len(lbResp'[1].rows))]_vars

C10_Witness ==
    /\ variant = "part_000"
    /\ \E req \in pending : FromAfterTo(req) /\ req.top = TopPart000

(***************************************************************************)
(* Claims about the aggregated totals (checked under SpecAggregator)       *)
(***************************************************************************)
Aggregated == totals # <<>> /\ totals[1].error = ""

HasNoRecordInRange(p) ==
    \A d \in AggDays : (aggIn.from <= d /\ d <= aggIn.to) => aggIn.records[<<p, d>>] = "none"

\* C11: for every roster and date range with at least one event, every
\* person's totals satisfy present_count + ftr_count + excused_count +
\* absent_count = sessions_count; a person with no record in range has all
\* sessions counted absent.
C11_TotalsSumToSessions ==
    (Aggregated /\ KnownEvents(aggIn) # {}) =>
        /\ Len(totals[1].persons) = Len(aggIn.roster)
        /\ \A k \in 1..Len(totals[1].persons) :
               LET t == totals[1].persons[k]
               IN  /\ t.person_id = aggIn.roster[k]
                   /\ t.sessions_count >= 1
                   /\ t.present_count + t.ftr_count + t.excused_count + t.absent_count
                          = t.sessions_count
                   /\ HasNoRecordInRange(t.person_id) =>
                          /\ t.absent_count = t.sessions_count
                          /\ t.present_count = 0 /\ t.ftr_count = 0 /\ t.excused_count = 0

C11_Witness ==
    /\ Aggregated
    /\ Len(totals[1].persons) = 2
    /\ totals[1].persons[1].present_count = 1
    /\ totals[1].persons[1].sessions_count = MaxDay
    /\ HasNoRecordInRange("B")
    /\ totals[1].persons[2].absent_count = MaxDay

(***************************************************************************)
(* C12: failures of an API call on the script.js page                      *)
(***************************************************************************)
\* The failures of a fetchJSON call a handler's catch block can meet
ApiFailureMsgs == FetchMsgs \cup {UnknownErrorMsg}

\* C12: once a handler whose API call failed (network error, non-OK status,
\* non-JSON body, JSON body with an error field) has finished, #msg shows
\* that error's message with the error class.
C12_FailureShown ==
    (variant = "script" /\ caught \in ApiFailureMsgs) => msg = errorLine(caught)

(***************************************************************************)
(* C13: the pw on every request of the script.js page                      *)
(***************************************************************************)
\* What the server reads out of a form-encoded query value
RECURSIVE FormDecode(_)
FormDecode(str) ==
    IF str = <<>> THEN <<>>
    ELSE IF Head(str) = "+" THEN <<" ">> \o FormDecode(Tail(str))
    ELSE IF Head(str) = "%" /\ Len(str) >= 3
         THEN LET code == SubSeq(str, 2, 3)
                  c == CASE code = <<"2", "6">> -> "&"
                         [] code = <<"2", "F">> -> "/"
                         [] code = <<"2", "5">> -> "%"
                         [] OTHER -> "?"
              IN  <<c>> \o FormDecode(SubSeq(str, 4, Len(str)))
    ELSE <<Head(str)>> \o FormDecode(Tail(str))

\* The requests the page has sent: the latest one and the searches in flight
RequestsSeen == {lastReq[i] : i \in 1..Len(lastReq)} \cup searching

\* C13: when the page was opened with a non-empty pw, every request the
\* client sends (fetchJSON's GET and POST, endpointExists's HEAD) carries a
\* pw query parameter that the server reads back as that value.
C13_PwCarried ==
    (variant = "script" /\ pw # <<>>) =>
        \A req \in RequestsSeen : req.pw.present /\ FormDecode(req.pw.text) = pw

\* A POST of the attendance went out under a pw, after the probes' HEADs.
C13_Witness ==
    /\ variant = "script" /\ pw # <<>>
    /\ lastReq # <<>> /\ lastReq[1].method = "POST" /\ lastReq[1].pw.present
    /\ probeStep = Len(ProbeOrder)

(***************************************************************************)
(* C14: the gated requests of the script.js page                           *)
(***************************************************************************)
\* What a click writes into #msg when it finds endpointExists.<x> false
GateMsg ==
    [roster |-> "Roster API is not available on the server.",
     save |-> "Save API is not available on the server.",
     leaderboard |-> "Leaderboard endpoint is not available."]

\* The requests of the gated endpoints that are in flight
GatedInFlight ==
    [roster |-> loading > 0, save |-> saving > 0, leaderboard |-> pending # {}]

\* C14: a roster, save or leaderboard request is issued only for an endpoint
\* whose HEAD probe returned OK: none is issued when the endpoint is absent,
\* and when it is present no click, at whatever moment after the page load,
\* is turned down as "not available" instead of issuing the request.
C14_GatedByPresence ==
    variant = "script" =>
        \A x \in DOMAIN GateMsg :
            /\ GatedInFlight[x] => (x \in server /\ endpointExists[x])
            /\ msg = errorLine(GateMsg[x]) => x \notin server

OneToFourDigits(str) == Len(str) \in 1..4 /\ \A i \in 1..Len(str) : IsDigit(str[i])

\* The clock reading of such an input: one or two digits are an hour
ClockOf(str) == IF Len(str) <= 2 THEN 100 * NumberOfDigits(str) ELSE NumberOfDigits(str)

\* end is later than start, as numbers typed and as clock readings
LaterThan(end, start) ==
    NumberOfDigits(end) > NumberOfDigits(start) /\ ClockOf(end) > ClockOf(start)

\* A step that puts an /api/available request on the wire
SearchSent == lastReq' # lastReq \/ searching' \ searching # {}

\* C16: a click on Search sends the /api/available request only when the
\* day is one of Monday..Friday, pad4(start) and pad4(end) are four digits
\* each and the end is numerically greater than the start; and it turns down
\* no input of 1 to 4 digits for start and end whose end is later than its
\* start.
C16_ValidatedOnly ==
    [][(variant = "script" /\ UNCHANGED <<daySel, startInp, endInp>>) =>
          /\ SearchSent =>
                /\ TrimDay(daySel) \in validDays
                /\ IsFourDigits(pad4(startInp)) /\ IsFourDigits(pad4(endInp))
                /\ NumberOfDigits(pad4(endInp)) > NumberOfDigits(pad4(startInp))
          /\ caught' \in ValidationMsgs =>
                ~(/\ TrimDay(daySel) \in validDays
                  /\ OneToFourDigits(startInp) /\ OneToFourDigits(endInp)
                  /\ LaterThan(endInp, startInp))]_vars

(***************************************************************************)
(* C17: what fetchJSON hands back                                          *)
(***************************************************************************)
\* C17 as stated: fetchJSON returns data only for a response with an OK
\* status, an empty or JSON body and no error field in the body; on every
\* other response it throws and returns nothing.
C17_AsStated ==
    (variant = "script" /\ lbResp # <<>>) =>
        /\ lbResp[1].net /\ lbResp[1].httpOk
        /\ lbResp[1].body \in {"empty", "json"}
        /\ lbResp[1].error = "absent"

\* C17: fetchJSON returns data only for a response with an OK status, an
\* empty or JSON body and no error field of a truthy value in the body; on
\* every other response it throws and returns nothing.
C17_ReturnsOnlyClean ==
    (variant = "script" /\ lbResp # <<>>) =>
        /\ lbResp[1].net /\ lbResp[1].httpOk
        /\ lbResp[1].body \in {"empty", "json"}
        /\ lbResp[1].error # "truthy"

\* A body {"error": null, "rows": [...]} came back as data and is on display.
C17_Witness ==
    /\ variant = "script"
    /\ lbResp = <<FalsyError(<<RowA>>)>>
    /\ lbOut = Out("table", renderLeaderboard(<<RowA>>))
    /\ caught = ""

(***************************************************************************)
(* C18: the tabs                                                           *)
(***************************************************************************)
\* C18: after any sequence of tab clicks exactly the panel of the last
\* clicked tab is shown, the highlighted tab button is the one whose target
\* is the shown panel, and never are two panels shown together.
C18_LastClickedShown ==
    /\ Cardinality(panels) <= 1
    /\ tabsOn = panels
    /\ clicked # "" => panels = {clicked}

(***************************************************************************)
(* C19: the POST of part_000's Save                                        *)
(***************************************************************************)
\* C19: part_000 sends the POST to /api/att/add_event_and_mark only with a
\* date and with the non-empty admin_pw the URL supplied (a Save click
\* without either sends nothing), and the body of every POST sent carries
\* that admin_pw.
C19_PostNeedsDateAndAdminPw ==
    (variant = "part_000" /\ posted # <<>>) =>
        /\ adminPw # ""
        /\ posted[1].admin_pw = adminPw
        /\ posted[1].date # <<>>

\* A POST went out with the date 8/27/2025 under ?admin_pw=secret.
C19_Witness ==
    /\ variant = "part_000"
    /\ posted # <<>>
    /\ posted[1].admin_pw = "secret"
    /\ posted[1].date = Date27

(***************************************************************************)
(* C20: the order of the availability table                                *)
(***************************************************************************)
\* The MS level a row's ms stands for: 3 for 3, for "3" and for "MS3"
LevelOf(row) == row.ms.v

\* C20: the availability table lists the rows by MS level descending and,
\* among rows of one MS level, by last name ascending without regard to
\* case, whatever order and whatever MS values the server sent.
C20_ByLevelThenLastName ==
    (variant = "script" /\ availOut.kind = "table") =>
        \A i, j \in 1..Len(availOut.rows) :
            i < j =>
                \/ LevelOf(availOut.rows[i]) > LevelOf(availOut.rows[j])
                \/ /\ LevelOf(availOut.rows[i]) = LevelOf(availOut.rows[j])
                   /\ localeCompare(toLowerCase(availOut.rows[i].last),
                                    toLowerCase(availOut.rows[j].last)) <= 0

(***************************************************************************)
(* C21: the automatic chart refresh of part_001                            *)
(***************************************************************************)
\* C21: in part_001 a tab click runs refreshCharts when it opens the reports
\* tab for the first time and at no other time: the count of automatic
\* refreshes goes up only from 0 to 1, only on a click on the reports tab,
\* and stands at 1 after every click that opens the reports tab.
C21_AutoRefreshOnce ==
    [][variant = "part_001" =>
          /\ chartRuns' \in {chartRuns, chartRuns + 1}
          /\ chartRuns' = chartRuns + 1 => (clicked' = "reports" /\ chartRuns = 0)
          /\ clicked' = "reports" => chartRuns' = 1]_vars

\* The reports tab has been opened, the charts refreshed once, and the user
\* has moved on to the directory, whose list is loaded: the next click on
\* the reports tab is a second opening.
C21_Witness ==
    /\ variant = "part_001"
    /\ chartsLoaded /\ chartRuns = 1
    /\ clicked = "directory" /\ panels = {"directory"}
    /\ dirLoaded

====
